---------------------------- MODULE Spec2Model ----------------------------
(***************************************************************************)
(* Artifact Age Estimator (src/myproject/app.py): the history store, the   *)
(* image asset store and the analysis handler of the Streamlit page.       *)
(*                                                                         *)
(* Conventions.                                                            *)
(*  - A Python str is a sequence of text pieces; the pieces "\"", "\\" and *)
(*    "\n" are the single characters quote, backslash and newline, every   *)
(*    other piece is a run of characters JSON writes unescaped.  "" is <<>>.*)
(*  - An Optional value is a sequence of length at most one: <<>> is None. *)
(*  - HISTORY_FILE is [exists, text]; text is the sequence of pieces that  *)
(*    json.dump wrote (or that a torn write left behind).                  *)
(*  - saved_images/ is a function from paths to the bytes stored there.    *)
(*  - The file system is reliable: open/write/remove succeed.  The names   *)
(*    save_uploaded_image_locally generates (second-precision timestamp    *)
(*    plus 8 hex digits of uuid4) are taken to be new on the disk.         *)
(***************************************************************************)
EXTENDS Integers, Sequences, FiniteSets, TLC

\* ------------------------------------------------------------------ bounds

\* An analysis is started while saved_images/ holds fewer files than this.
MaxFiles == 1
\* The wall clock runs through the seconds 0 .. MaxClock.
MaxClock == 0

\* ------------------------------------------------------------ Python values

None == <<>>
Some(x) == <<x>>

QUOTE == "\""
BACKSLASH == "\\"
NEWLINE == "\n"

\* `x or default` on an Optional[str]: None and "" are both falsy.
OrElse(opt, default) == IF opt = None \/ opt[1] = <<>> THEN default ELSE opt[1]

\* `x is None` in place of `not x`: the empty string counts as a value.
IsNone(opt) == opt = None

\* `not x` on an Optional[str].
Falsy(opt) == opt = None \/ opt[1] = <<>>

\* ---------------------------------------------------------------- json.dump

KEY_ORDER == <<"time", "name", "image_path", "result">>

\* Escaping left out: the characters are written as they are.
EncodeCharsRaw(s) == s

RECURSIVE EncodeChars(_)
\* json's string escaping with ensure_ascii=False: quote, backslash and the
\* control characters are escaped, everything else is written literally.
EncodeChars(s) ==
    IF s = <<>> THEN <<>>
    ELSE LET c == Head(s)
             e == IF c = QUOTE THEN <<BACKSLASH, QUOTE>>
                  ELSE IF c = BACKSLASH THEN <<BACKSLASH, BACKSLASH>>
                  ELSE IF c = NEWLINE THEN <<BACKSLASH, "n">>
                  ELSE <<c>>
         IN e \o EncodeChars(Tail(s))

EncodeString(s) == <<QUOTE>> \o EncodeChars(s) \o <<QUOTE>>

RECURSIVE EncodeMembers(_, _, _)
\* The members of one dict, in key order, separated by "," and a newline.
EncodeMembers(item, k, first) ==
    IF k > Len(KEY_ORDER) THEN <<>>
    ELSE IF KEY_ORDER[k] \notin DOMAIN item THEN EncodeMembers(item, k + 1, first)
    ELSE (IF first THEN <<>> ELSE <<",">>)
         \o <<NEWLINE>> \o EncodeString(<<KEY_ORDER[k]>>) \o <<":", " ">>
         \o EncodeString(item[KEY_ORDER[k]])
         \o EncodeMembers(item, k + 1, FALSE)

EncodeItem(item) == <<"{">> \o EncodeMembers(item, 1, TRUE) \o <<NEWLINE, "}">>

RECURSIVE EncodeItems(_, _)
EncodeItems(h, i) ==
    IF i > Len(h) THEN <<>>
    ELSE (IF i = 1 THEN <<>> ELSE <<",">>)
         \o <<NEWLINE>> \o EncodeItem(h[i]) \o EncodeItems(h, i + 1)

\* json.dump(history, f, ensure_ascii=False, indent=2): the text written.
json_dump(h) ==
    IF h = <<>> THEN <<"[", "]">>
    ELSE <<"[">> \o EncodeItems(h, 1) \o <<NEWLINE, "]">>

\* ---------------------------------------------------------------- json.load

Whitespace == {" ", NEWLINE}

Fail == [ok |-> FALSE, val |-> <<>>, pos |-> 0]
Ok(v, p) == [ok |-> TRUE, val |-> v, pos |-> p]

RECURSIVE SkipWs(_, _)
SkipWs(s, i) == IF i <= Len(s) /\ s[i] \in Whitespace THEN SkipWs(s, i + 1) ELSE i

At(s, i, c) == i <= Len(s) /\ s[i] = c

RECURSIVE DecodeChars(_, _, _)
\* The characters of a string up to its closing quote; a raw control
\* character, an unknown escape or the end of the text is a decode error.
DecodeChars(s, i, acc) ==
    IF i > Len(s) THEN Fail
    ELSE IF s[i] = QUOTE THEN Ok(acc, i + 1)
    ELSE IF s[i] = NEWLINE THEN Fail
    ELSE IF s[i] = BACKSLASH THEN
        IF i + 1 > Len(s) THEN Fail
        ELSE IF s[i + 1] \in {QUOTE, BACKSLASH}
            THEN DecodeChars(s, i + 2, Append(acc, s[i + 1]))
        ELSE IF s[i + 1] = "n" THEN DecodeChars(s, i + 2, Append(acc, NEWLINE))
        ELSE Fail
    ELSE DecodeChars(s, i + 1, Append(acc, s[i]))

DecodeString(s, i) == IF At(s, i, QUOTE) THEN DecodeChars(s, i + 1, <<>>) ELSE Fail

\* The dict `item` with item[key] = value, json's last-key-wins included.
WithMember(item, key, value) ==
    [k \in DOMAIN item \cup {key} |-> IF k = key THEN value ELSE item[k]]

EmptyDict == [k \in {} |-> <<>>]

RECURSIVE DecodeMembers(_, _, _)
\* i stands on the opening quote of a key.
DecodeMembers(s, i, item) ==
    LET k == DecodeString(s, i) IN
    IF ~k.ok \/ Len(k.val) # 1 THEN Fail
    ELSE LET c == SkipWs(s, k.pos) IN
         IF ~At(s, c, ":") THEN Fail
         ELSE LET v == DecodeString(s, SkipWs(s, c + 1)) IN
              IF ~v.ok THEN Fail
              ELSE LET e == SkipWs(s, v.pos)
                       d == WithMember(item, k.val[1], v.val)
                   IN IF At(s, e, "}") THEN Ok(d, e + 1)
                      ELSE IF At(s, e, ",") THEN DecodeMembers(s, SkipWs(s, e + 1), d)
                      ELSE Fail

DecodeItem(s, i) ==
    IF ~At(s, i, "{") THEN Fail
    ELSE LET j == SkipWs(s, i + 1) IN
         IF At(s, j, "}") THEN Ok(EmptyDict, j + 1)
         ELSE DecodeMembers(s, j, EmptyDict)

RECURSIVE DecodeItems(_, _, _)
\* i stands on the first character of an element.
DecodeItems(s, i, acc) ==
    LET it == DecodeItem(s, i) IN
    IF ~it.ok THEN Fail
    ELSE LET e == SkipWs(s, it.pos) IN
         IF At(s, e, "]") THEN Ok(Append(acc, it.val), e + 1)
         ELSE IF At(s, e, ",") THEN DecodeItems(s, SkipWs(s, e + 1), Append(acc, it.val))
         ELSE Fail

\* json.load(f): ok = FALSE stands for the JSONDecodeError it raises.
json_load(s) ==
    LET i == SkipWs(s, 1) IN
    IF ~At(s, i, "[") THEN Fail
    ELSE LET j == SkipWs(s, i + 1)
             r == IF At(s, j, "]") THEN Ok(<<>>, j + 1) ELSE DecodeItems(s, j, <<>>)
         IN IF r.ok /\ SkipWs(s, r.pos) = Len(s) + 1 THEN r ELSE Fail


\* ------------------------------------------------------- module-level names

IMAGES_DIR == "saved_images"

\* ------------------------------------------------------------ history store

\* The backing document when HISTORY_FILE does not exist.
Missing == [exists |-> FALSE, text |-> <<>>]

\* What a call returns: raised = TRUE when an exception leaves it instead.
Returned(v) == [raised |-> FALSE, value |-> v]
Raised == [raised |-> TRUE, value |-> <<>>]

\* load_history without its try/except: a decode error leaves the function.
load_history_unguarded(doc) ==
    IF doc.exists
    THEN LET r == json_load(doc.text)
         IN IF r.ok THEN Returned(r.val) ELSE Raised
    ELSE Returned(<<>>)

\* load_history(): a missing file and any exception of open/json.load give [].
load_history(doc) ==
    IF doc.exists
    THEN LET r == json_load(doc.text)
         IN IF r.ok THEN Returned(r.val) ELSE Returned(<<>>)
    ELSE Returned(<<>>)

\* A save that writes the newest record alone instead of the whole list.
save_history_newest_only(h) ==
    [exists |-> TRUE,
     text |-> json_dump(IF h = <<>> THEN <<>> ELSE <<h[Len(h)]>>)]

\* save_history(history): the whole document is rewritten.
save_history(h) == [exists |-> TRUE, text |-> json_dump(h)]

\* ------------------------------------------------------- image asset store

safe_ext(mime_type) == IF mime_type = <<"image/png">> THEN "png" ELSE "jpg"

Digits == <<"0", "1", "2", "3", "4", "5", "6", "7", "8", "9">>
Seconds(t) == <<Digits[(t \div 10) + 1], Digits[(t % 10) + 1]>>

\* datetime.now().strftime(fmt) at second t of the modelled minute.
strftime_file(t) == <<"20261106_1408">> \o Seconds(t)
strftime_label(t) == <<"2026-11-06 14:08:">> \o Seconds(t)

\* Lines 43-48: f"{time_str}_{unique_id}.{ext}"
FileName(uploaded_file, t, unique_id) ==
    strftime_file(t)
        \o <<"_", unique_id, ".", safe_ext(OrElse(uploaded_file.type, <<"image/jpeg">>))>>

\* Line 49: os.path.join(IMAGES_DIR, filename)
ImagePath(uploaded_file, t, unique_id) ==
    <<IMAGES_DIR, "/">> \o FileName(uploaded_file, t, unique_id)

\* The disk `fs` with `bytes` written at `path` (open(path, "wb")).
WriteFile(fs, path, bytes) ==
    [p \in DOMAIN fs \cup {path} |-> IF p = path THEN bytes ELSE fs[p]]

\* A save that returns the bare file name instead of the path it wrote to.
save_uploaded_image_returns_filename(fs, uploaded_file, t, unique_id) ==
    [files |-> WriteFile(fs, ImagePath(uploaded_file, t, unique_id), uploaded_file.bytes),
     image_path |-> FileName(uploaded_file, t, unique_id),
     original_name |-> uploaded_file.name]

\* save_uploaded_image_locally(uploaded_file): the disk afterwards and the
\* pair (image_path, uploaded_file.name) it returns.
save_uploaded_image_locally(fs, uploaded_file, t, unique_id) ==
    LET image_path == ImagePath(uploaded_file, t, unique_id)
    IN [files |-> WriteFile(fs, image_path, uploaded_file.bytes),
        image_path |-> image_path,
        original_name |-> uploaded_file.name]

\* The existence test inverted: a file that exists is left in place.
delete_image_file_inverted(fs, path) ==
    IF path # <<>> /\ path \notin DOMAIN fs
    THEN [p \in DOMAIN fs \ {path} |-> fs[p]]
    ELSE fs

\* delete_image_file(path): removes the file when the path is non-empty and
\* exists; never raises.
delete_image_file(fs, path) ==
    IF path # <<>> /\ path \in DOMAIN fs
    THEN [p \in DOMAIN fs \ {path} |-> fs[p]]
    ELSE fs

\* item.get("image_path", "")
ImagePathOf(item) == IF "image_path" \in DOMAIN item THEN item["image_path"] ELSE <<>>

\* h[idx]: a negative index counts from the end; out of range raises.
GetItem(h, idx) ==
    LET j == IF idx < 0 THEN idx + Len(h) + 1 ELSE idx + 1
    IN IF j < 1 \/ j > Len(h) THEN Raised ELSE Returned(h[j])

\* pop() without its argument: the last record is removed whatever idx is.
PopLast(h, idx) ==
    IF h = <<>> THEN Raised ELSE Returned(SubSeq(h, 1, Len(h) - 1))

\* list.pop(idx): a negative index counts from the end; out of range raises.
Pop(h, idx) ==
    LET j == IF idx < 0 THEN idx + Len(h) + 1 ELSE idx + 1
    IN IF j < 1 \/ j > Len(h) THEN Raised
       ELSE Returned(SubSeq(h, 1, j - 1) \o SubSeq(h, j + 1, Len(h)))

\* ----------------------------------------------------- inputs of the model

\* Files a user uploads: name, declared MIME type (may be unset), content.
Uploads ==
    { [name |-> <<"relic.jpg">>, type |-> Some(<<"image/jpeg">>),
       bytes |-> <<"A", "B", "C">>],
      [name |-> <<"urn ", QUOTE, "b", QUOTE, BACKSLASH, ".png">>,
       type |-> Some(<<"image/png">>), bytes |-> <<>>],
      [name |-> <<"scan">>, type |-> None, bytes |-> <<"A">>] }

\* message.content of a completion: text, or None.
Contents ==
    { Some(<<"1 Type: vase">>),
      Some(<<"2 ", QUOTE, "Period", QUOTE, ":", NEWLINE, BACKSLASH, "n">>),
      None }

\* What client.chat.completions.create does: it returns a completion or
\* raises.  cls is "" for a return.
Completion(content) == [cls |-> "", text |-> <<>>, content |-> content]
Raise(cls, text) == [cls |-> cls, text |-> text, content |-> None]

ProviderReplies ==
    {Completion(c) : c \in Contents}
    \cup { Raise("AuthenticationError", <<"Incorrect API key provided">>),
           Raise("RateLimitError", <<"Rate limit reached">>),
           Raise("APIConnectionError", <<"Invalid API key.">>) }

\* uuid.uuid4().hex[:8]
UniqueIds == {"0a1b2c3d", "deadbeef"}

\* os.getenv("OPENAI_API_KEY"): unset, empty, or a key.
ApiKeys == {None, Some(<<>>), Some(<<"sk-test">>)}

\* ------------------------------------------------------- user-facing text

MsgNone == <<>>
MsgNoKey == <<"Please set OPENAI_API_KEY in your .env file!">>
MsgAuth == <<"Invalid API key.">>
MsgRateLimit == <<"Rate limit exceeded.">>
MsgGeneric(text) == <<"Error: ">> \o text
MsgSuccess == <<"Analysis Complete! Saved to History.">>

\* isinstance(exc, base): every exception class of the openai package
\* derives from Exception.
IsInstance(cls, base) == base = "Exception" \/ cls = base

\* The clauses in the wrong order: `except Exception` first takes everything.
ExceptMessageGenericFirst(exc) ==
    IF IsInstance(exc.cls, "Exception") THEN MsgGeneric(exc.text)
    ELSE IF IsInstance(exc.cls, "AuthenticationError") THEN MsgAuth
    ELSE MsgRateLimit

\* Lines 248-253: the except clauses, tried in order.
ExceptMessage(exc) ==
    IF IsInstance(exc.cls, "AuthenticationError") THEN MsgAuth
    ELSE IF IsInstance(exc.cls, "RateLimitError") THEN MsgRateLimit
    ELSE MsgGeneric(exc.text)

\* Whether one of the except clauses takes the exception.
Caught(exc) ==
    \/ IsInstance(exc.cls, "AuthenticationError")
    \/ IsInstance(exc.cls, "RateLimitError")
    \/ IsInstance(exc.cls, "Exception")

\* ------------------------------------------------------------------- state

VARIABLES
    api_key,                 \* module global read from the environment
    document,                \* HISTORY_FILE on disk
    files,                   \* IMAGES_DIR on disk: path -> bytes
    history,                 \* st.session_state.history
    selected_history_index,  \* st.session_state.selected_history_index
    now,                     \* the wall clock, in seconds
    loadable_at_start,       \* the document parsed when the session began
    last                     \* the latest script run: trigger, inputs, the
                             \* store it started from, and what it showed

vars ==
    <<api_key, document, files, history, selected_history_index, now,
      loadable_at_start, last>>

\* A script run that did nothing yet, from the current store.
Run(op) ==
    [op |-> op, idx |-> None, upload |-> None, reply |-> None,
     history |-> history, document |-> document, files |-> files,
     called |-> FALSE, raised |-> FALSE, message |-> MsgNone,
     image_path |-> <<>>]

\* ---------------------------------------------------- the disk at start-up

\* Records earlier runs of the program stored: one from before images were
\* kept (no image_path), two with their images.
OldImage == <<IMAGES_DIR, "/", "20251231_235958", "_", "cafebabe", ".", "jpg">>
OldImage2 == <<IMAGES_DIR, "/", "20251231_235959", "_", "0badf00d", ".", "png">>

OldPlain ==
    [time |-> <<"2025-12-30 10:00:00">>, name |-> <<"coin.jpg">>,
     result |-> <<"1 Type: coin">>]

OldWithImage ==
    [time |-> <<"2025-12-31 23:59:58">>, name |-> <<"relic.jpg">>,
     image_path |-> OldImage, result |-> <<"1 Type: ", QUOTE, "vase", QUOTE>>]

OldWithImage2 ==
    [time |-> <<"2025-12-31 23:59:59">>, name |-> <<"relic.jpg">>,
     image_path |-> OldImage2, result |-> <<"1 Type: bowl", NEWLINE>>]

NoFiles == [p \in {} |-> <<>>]
OneFile == [p \in {OldImage} |-> <<"A", "B", "C">>]
TwoFiles == [p \in {OldImage, OldImage2} |-> IF p = OldImage THEN <<"A", "B", "C">> ELSE <<>>]

\* A rewrite of the document that stopped half way.
Torn(text) == SubSeq(text, 1, Len(text) \div 2)

\* First run; stored histories with their images; a torn document.
InitDisks ==
    { [document |-> Missing, files |-> NoFiles],
      [document |-> save_history(<<OldPlain>>), files |-> NoFiles],
      [document |-> save_history(<<OldPlain, OldWithImage>>), files |-> OneFile],
      [document |-> save_history(<<OldPlain, OldWithImage, OldWithImage2>>),
       files |-> TwoFiles],
      [document |-> [exists |-> TRUE,
                     text |-> Torn(json_dump(<<OldPlain, OldWithImage>>))],
       files |-> OneFile] }

\* --------------------------------------------------------- session start

\* Whether HISTORY_FILE exists and json.load accepts it.
Loadable(doc) == doc.exists /\ json_load(doc.text).ok

\* Lines 66-70 in a new session: history is loaded, nothing is selected.
SessionStart ==
    LET loaded == load_history(document)
    IN /\ history' = loaded.value
       /\ selected_history_index' = None
       /\ loadable_at_start' = Loadable(document)
       /\ last' = [Run("start") EXCEPT !.raised = loaded.raised]
       /\ UNCHANGED <<api_key, document, files, now>>

Init ==
    /\ api_key \in ApiKeys
    /\ \E d \in InitDisks : document = d.document /\ files = d.files
    /\ now = 0
    /\ history = load_history(document).value
    /\ selected_history_index = None
    /\ loadable_at_start = Loadable(document)
    /\ last = [Run("start") EXCEPT !.raised = load_history(document).raised]

\* ---------------------------------------------------------------- sidebar

\* Lines 80-98: the user picks option k of the selectbox; option 0 is the
\* placeholder, the others are the labels newest first.  Labels start with
\* their position, so labels[::-1].index(label) is the option's position.
SelectedIndex(h, k) ==
    IF k = 0 THEN None
    ELSE LET reversed_index == k - 1
         IN Some((Len(h) - 1) - reversed_index)

SelectItem(k) ==
    /\ history # <<>>
    /\ selected_history_index' = SelectedIndex(history, k)
    /\ last' = Run("select")
    /\ UNCHANGED <<api_key, document, files, history, now, loadable_at_start>>

\* The lower bound left out: idx is not None and idx < len(history).
InBoundsUpperOnly(idx, h) == idx # None /\ idx[1] < Len(h)

\* Line 105: idx is not None and 0 <= idx < len(history).
InBounds(idx, h) == idx # None /\ 0 <= idx[1] /\ idx[1] < Len(h)

\* Lines 105-110: what the Delete handler does to the store for `idx`.
DeleteAt(h, fs, doc, idx) ==
    LET same == [history |-> h, files |-> fs, document |-> doc,
                 selected_history_index |-> idx, raised |-> FALSE]
    IN IF ~InBounds(idx, h) THEN same
       ELSE LET item == GetItem(h, idx[1]) IN
            IF item.raised THEN [same EXCEPT !.raised = TRUE]
            ELSE LET removed == delete_image_file(fs, ImagePathOf(item.value))
                     popped == Pop(h, idx[1])
                 IN IF popped.raised
                    THEN [same EXCEPT !.files = removed, !.raised = TRUE]
                    ELSE [history |-> popped.value, files |-> removed,
                          document |-> save_history(popped.value),
                          selected_history_index |-> None, raised |-> FALSE]

\* Lines 103-111: the Delete button, rendered when history is non-empty.
DeleteButton ==
    /\ history # <<>>
    /\ LET d == DeleteAt(history, files, document, selected_history_index)
       IN /\ history' = d.history
          /\ files' = d.files
          /\ document' = d.document
          /\ selected_history_index' = d.selected_history_index
          /\ last' = [Run("delete") EXCEPT !.idx = selected_history_index,
                                           !.raised = d.raised]
    /\ UNCHANGED <<api_key, now, loadable_at_start>>

\* The loop leaves after its first item.
DeleteImagesFirstOnly(fs, h) ==
    IF h = <<>> THEN fs ELSE delete_image_file(fs, ImagePathOf(Head(h)))

RECURSIVE DeleteImages(_, _)
\* Lines 115-116: delete_image_file for every item, in order.
DeleteImages(fs, h) ==
    IF h = <<>> THEN fs
    ELSE DeleteImages(delete_image_file(fs, ImagePathOf(Head(h))), Tail(h))

\* Lines 115-118: what Clear All does to the store.
ClearAll(h, fs) ==
    [files |-> DeleteImages(fs, h), history |-> <<>>, document |-> save_history(<<>>)]

\* Lines 114-120: the Clear All button, rendered when history is non-empty.
ClearAllButton ==
    /\ history # <<>>
    /\ LET c == ClearAll(history, files)
       IN /\ files' = c.files
          /\ history' = c.history
          /\ document' = c.document
    /\ selected_history_index' = None
    /\ last' = Run("clear")
    /\ UNCHANGED <<api_key, now, loadable_at_start>>

\* ------------------------------------------------------------- main page

\* Lines 234-241: the record appended after a successful call.
NewRecord(time_str, original_name, saved_image_path, result) ==
    [time |-> time_str, name |-> original_name,
     image_path |-> saved_image_path, result |-> result]

\* The generated name is new: no file and no record carries it.
Unused(path) ==
    /\ path \notin DOMAIN files
    /\ \A i \in 1..Len(history) : ImagePathOf(history[i]) # path

\* Lines 197-253: the Estimate Artifact Age button with `uploaded_file` in
\* the uploader.  t1 is the clock when the image is saved, t2 when the
\* record is built; `reply` is what the provider does with the request.
EstimateButton(uploaded_file, reply, t1, t2, unique_id) ==
    /\ Cardinality(DOMAIN files) < MaxFiles
    /\ IF Falsy(api_key)
       THEN /\ last' = [Run("estimate") EXCEPT
                           !.upload = Some(uploaded_file), !.message = MsgNoKey]
            /\ UNCHANGED <<files, history, document, now>>
       ELSE LET saved == save_uploaded_image_locally(files, uploaded_file, t1, unique_id)
                ran == [Run("estimate") EXCEPT
                           !.upload = Some(uploaded_file), !.reply = Some(reply),
                           !.called = TRUE, !.image_path = saved.image_path]
            IN /\ Unused(ImagePath(uploaded_file, t1, unique_id))
               /\ files' = saved.files
               /\ IF reply.cls # ""
                  THEN /\ last' = [ran EXCEPT !.message = ExceptMessage(reply),
                                              !.raised = ~Caught(reply)]
                       /\ now' = t1
                       /\ UNCHANGED <<history, document>>
                  ELSE LET result == OrElse(reply.content, <<>>)
                           time_str == strftime_label(t2)
                           appended == Append(history,
                               NewRecord(time_str, saved.original_name,
                                         saved.image_path, result))
                       IN /\ history' = appended
                          /\ document' = save_history(appended)
                          /\ now' = t2
                          /\ last' = [ran EXCEPT !.message = MsgSuccess]
    /\ UNCHANGED <<api_key, selected_history_index, loadable_at_start>>

\* ------------------------------------------------------------ specification

Next ==
    \/ SessionStart
    \/ \E k \in 0..Len(history) : SelectItem(k)
    \/ DeleteButton
    \/ ClearAllButton
    \/ \E uploaded_file \in Uploads, reply \in ProviderReplies,
          t1 \in now..MaxClock, unique_id \in UniqueIds :
          \E t2 \in t1..MaxClock :
             EstimateButton(uploaded_file, reply, t1, t2, unique_id)

Spec == Init /\ [][Next]_vars

\* The Delete handler on every value selected_history_index can be given:
\* None, and the integers from below 0 to beyond the end of the history.
IndexInputs(h) == {None} \cup {Some(i) : i \in -2..(Len(h) + 1)}

InitDeleteAt ==
    /\ api_key \in ApiKeys
    /\ \E d \in InitDisks : document = d.document /\ files = d.files
    /\ now = 0
    /\ history = load_history(document).value
    /\ selected_history_index \in IndexInputs(history)
    /\ loadable_at_start = Loadable(document)
    /\ last = [Run("start") EXCEPT !.raised = load_history(document).raised]

NextDeleteAt == DeleteButton

SpecDeleteAt == InitDeleteAt /\ [][NextDeleteAt]_vars

\* ------------------------------------------------------------ properties

\* What the latest run was.
Deleted == last.op = "delete"
Cleared == last.op = "clear"
Estimated == last.op = "estimate"
Started == last.op = "start"

\* The index the latest Delete read lies outside the history it started from.
OutOfBounds ==
    \/ last.idx = None
    \/ last.idx[1] < 0
    \/ last.idx[1] >= Len(last.history)

\* The latest run called the provider and the call raised / returned.
CallFailed == Estimated /\ last.reply # None /\ last.reply[1].cls # ""
CallReturned == Estimated /\ last.reply # None /\ last.reply[1].cls = ""

\* The store is as the latest run found it.
StoreUnchanged ==
    /\ history = last.history
    /\ document = last.document
    /\ files = last.files

\* C1: Delete on an index i within a history of N records leaves N-1 records:
\* the record at i is gone, the others are unchanged and in their order, and
\* the file at the deleted record's image_path is no longer on the disk.
C1_DeleteRemovesRecordAndImage ==
    (Deleted /\ ~OutOfBounds) =>
        LET i == last.idx[1] + 1
            before == last.history
        IN /\ Len(history) = Len(before) - 1
           /\ \A j \in 1..Len(history) :
                 history[j] = IF j < i THEN before[j] ELSE before[j + 1]
           /\ ImagePathOf(before[i]) \notin DOMAIN files
           /\ ~last.raised

\* C1's case: the middle record of three, whose image was on the disk, was
\* deleted.
C1_Witness ==
    /\ Deleted
    /\ last.idx = Some(1)
    /\ Len(last.history) = 3
    /\ Len(history) = 2
    /\ ImagePathOf(last.history[2]) \in DOMAIN last.files
    /\ ImagePathOf(last.history[2]) \notin DOMAIN files
    /\ history = <<last.history[1], last.history[3]>>

\* C2: Delete with no selection, a negative index or an index >= N changes
\* nothing: history, the document and every image file are as before.
C2_DeleteOutOfBoundsIsNoOp ==
    (Deleted /\ OutOfBounds) => (StoreUnchanged /\ ~last.raised)

\* C2's case: Delete ran with index -1 on a history whose last record has
\* an image on the disk.
C2_Witness ==
    /\ Deleted
    /\ last.idx = Some(-1)
    /\ Len(history) = 3
    /\ ImagePathOf(history[3]) \in DOMAIN files

\* C3: Clear All ends with no record in memory and none in the document,
\* with none of the image files the history referred to left on the disk,
\* and without failing; running it again on that store changes nothing.
C3_ClearAllEmptiesStore ==
    Cleared =>
        /\ history = <<>>
        /\ load_history(document) = Returned(<<>>)
        /\ Loadable(document)
        /\ \A i \in 1..Len(last.history) :
              ImagePathOf(last.history[i]) \notin DOMAIN files
        /\ ~last.raised
        /\ ClearAll(history, files)
              = [files |-> files, history |-> history, document |-> document]

\* C3's case: a history of three records with two images on disk was cleared.
C3_Witness ==
    /\ Cleared
    /\ Len(last.history) = 3
    /\ Cardinality(DOMAIN last.files) = 2
    /\ files = NoFiles

\* C4: after a successful analysis, loading the document the way a new session
\* does returns the prior history followed by the appended record.
C4_AppendThenLoad ==
    (CallReturned /\ ~last.raised) =>
        LET loaded == load_history(document)
            n == Len(last.history) + 1
        IN /\ ~loaded.raised
           /\ Len(history) = n
           /\ Len(loaded.value) = n
           /\ loaded.value[n] = history[n]
           /\ SubSeq(loaded.value, 1, n - 1) = last.history

\* C4's case: a record whose name holds a quote and a backslash and whose
\* result holds a newline was appended to a non-empty history.
C4_Witness ==
    /\ CallReturned
    /\ last.history # <<>>
    /\ Len(history) = Len(last.history) + 1
    /\ \E i \in 1..Len(history[Len(history)].name) :
          history[Len(history)].name[i] = BACKSLASH
    /\ \E i \in 1..Len(history[Len(history)].result) :
          history[Len(history)].result[i] = NEWLINE

\* C5: a session that starts on a missing or unparsable document starts
\* with an empty history, and load_history does not raise.
C5_LoadMissingOrCorrupt ==
    (Started /\ ~Loadable(document)) => (history = <<>> /\ ~last.raised)

\* C5's case: a session started on a document that exists and does not parse.
C5_Witness ==
    /\ Started
    /\ document.exists
    /\ document.text # <<>>
    /\ ~json_load(document.text).ok

\* C6: when the provider call raises, no record is appended (history and
\* document are as before), the exception does not leave the handler, and
\* authentication, rate-limit and other failures each show their own message.
C6_FailedCallAppendsNothing ==
    CallFailed =>
        LET exc == last.reply[1] IN
        /\ history = last.history
        /\ document = last.document
        /\ ~last.raised
        /\ (last.message = MsgAuth) <=> (exc.cls = "AuthenticationError")
        /\ (last.message = MsgRateLimit) <=> (exc.cls = "RateLimitError")
        /\ (last.message = MsgGeneric(exc.text))
              <=> (exc.cls \notin {"AuthenticationError", "RateLimitError"})

\* C6's case: the call raised the authentication error on a non-empty history.
C6_Witness ==
    /\ CallFailed
    /\ last.reply[1].cls = "AuthenticationError"
    /\ last.message = MsgAuth
    /\ history # <<>>

\* C7: a successful analysis appends exactly one record at the end, named
\* after the uploaded file, holding the provider's text (empty when it sent
\* none), with image_path an existing file holding the uploaded bytes; from
\* an empty history the result is a history of that one record.
C7_SuccessAppendsOneRecord ==
    (CallReturned /\ ~last.raised) =>
        LET n == Len(last.history) + 1
            upload == last.upload[1]
            content == last.reply[1].content
        IN /\ Len(history) = n
           /\ SubSeq(history, 1, n - 1) = last.history
           /\ DOMAIN history[n] = {"time", "name", "image_path", "result"}
           /\ history[n].name = upload.name
           /\ history[n].result = (IF content = None THEN <<>> ELSE content[1])
           /\ history[n].image_path # <<>>
           /\ history[n].image_path \in DOMAIN files
           /\ files[history[n].image_path] = upload.bytes
           /\ (last.history = <<>> => Len(history) = 1)

\* C7's case: relic.jpg holding ABC was analysed as "1 Type: vase" from an
\* empty history.
C7_Witness ==
    /\ CallReturned
    /\ last.history = <<>>
    /\ last.upload[1].name = <<"relic.jpg">>
    /\ last.upload[1].bytes = <<"A", "B", "C">>
    /\ last.reply[1].content = Some(<<"1 Type: vase">>)
    /\ Len(history) = 1
    /\ history[1].result = <<"1 Type: vase">>

\* C8: with the credential unset or empty, Estimate reports the
\* configuration error and does nothing else: no provider call, no image
\* written, history and document unchanged.
C8_NoKeyNoCall ==
    (Estimated /\ (api_key = None \/ api_key = Some(<<>>))) =>
        /\ ~last.called
        /\ last.reply = None
        /\ last.message = MsgNoKey
        /\ StoreUnchanged

\* C8's case: Estimate was pressed with an empty OPENAI_API_KEY and an
\* upload in place.
C8_Witness ==
    /\ Estimated
    /\ api_key = Some(<<>>)
    /\ last.upload # None
    /\ last.message = MsgNoKey

\* Every record with a non-empty image_path refers to a file on the disk.
AssetsPresent ==
    \A i \in 1..Len(history) :
        ImagePathOf(history[i]) # <<>> => ImagePathOf(history[i]) \in DOMAIN files

\* A file the latest run removed belonged to the record that run deleted,
\* or to a record of the history that run cleared.
RemovedOnlyWithRecord ==
    \A p \in DOMAIN last.files \ DOMAIN files :
        \/ /\ Deleted
           /\ ~OutOfBounds
           /\ p = ImagePathOf(last.history[last.idx[1] + 1])
        \/ /\ Cleared
           /\ \E i \in 1..Len(last.history) : p = ImagePathOf(last.history[i])

C10_DocumentMirrorsHistory ==
    loadable_at_start =>
        /\ Loadable(document)
        /\ json_load(document.text).val = history

\* C10's case: the session began on a loadable document and has since
\* appended a record and deleted one.
C10_Witness ==
    /\ loadable_at_start
    /\ Deleted
    /\ ~OutOfBounds
    /\ \E i \in 1..Len(last.history) : ImagePathOf(last.history[i]) \notin {<<>>, OldImage, OldImage2}

=============================================================================
